---- MODULE Spec2Model ----
(***************************************************************************)
(* Model of the BrightStart upload-to-prediction pipeline:                 *)
(*   app/services/inference.py       (InferenceService, module globals)    *)
(*   app/services/image_processor.py (ImageProcessor)                      *)
(*   app/views/dashboard.py          (predict request handler)             *)
(*   app/__init__.py                 (preload_model at start-up)           *)
(* Process 0 is the start-up thread running preload_model; processes       *)
(* 1..NumWorkers are request threads, each running dashboard.predict one   *)
(* statement group at a time, so that the reads and writes of the module   *)
(* globals _model and _model_loaded interleave as the threads of one       *)
(* Python process can interleave them.                                     *)
(***************************************************************************)
EXTENDS Integers, Sequences, FiniteSets, TLC

\* ------------------------------------------------------------------ bounds
NumWorkers == 2
MaxRequests == 2
MaxCalls == 3
MaxClock == 1
MaxDeletes == 2
MaxLen == 3

\* ------------------------------------------------------- program constants
MAX_SIZE_MB == 10
MB == 1024 * 1024
Scale == 100

Main == 0
Workers == 1..NumWorkers
Procs == 0..NumWorkers

None == 0

\* ----------------------------------------------------------- text helpers
\* A string is a sequence of one-character strings; "NUL" stands for '\x00'.
Upper == <<"A","B","C","D","E","F","G","H","I","J","K","L","M",
           "N","O","P","Q","R","S","T","U","V","W","X","Y","Z">>
LowerLetters == <<"a","b","c","d","e","f","g","h","i","j","k","l","m",
                  "n","o","p","q","r","s","t","u","v","w","x","y","z">>

LowerChar(c) ==
    IF \E i \in 1..26 : Upper[i] = c
    THEN LowerLetters[CHOOSE i \in 1..26 : Upper[i] = c]
    ELSE c

lower(s) == [i \in 1..Len(s) |-> LowerChar(s[i])]

Whitespace == {" ", "\t", "\n", "\r"}

RECURSIVE lstrip(_)
lstrip(s) ==
    IF s # <<>> /\ Head(s) \in Whitespace THEN lstrip(Tail(s)) ELSE s

RECURSIVE rstrip(_)
rstrip(s) ==
    IF s # <<>> /\ s[Len(s)] \in Whitespace
    THEN rstrip(SubSeq(s, 1, Len(s) - 1))
    ELSE s

strip(s) == rstrip(lstrip(s))

\* str.replace(pat, ''): leftmost non-overlapping occurrences are removed.
RECURSIVE replace(_, _)
replace(s, pat) ==
    IF Len(s) < Len(pat) THEN s
    ELSE IF SubSeq(s, 1, Len(pat)) = pat
         THEN replace(SubSeq(s, Len(pat) + 1, Len(s)), pat)
         ELSE <<Head(s)>> \o replace(Tail(s), pat)

HasDot(s) == \E i \in 1..Len(s) : s[i] = "."

LastDot(s) == CHOOSE i \in 1..Len(s) :
                  s[i] = "." /\ \A j \in (i+1)..Len(s) : s[j] # "."

\* filename.rsplit('.', 1)[1]
AfterLastDot(s) == SubSeq(s, LastDot(s) + 1, Len(s))

\* -------------------------------------------------------- ImageProcessor
ALLOWED_EXTENSIONS ==
    { <<"j","p","g">>, <<"j","p","e","g">>, <<"p","n","g">>, <<"g","i","f">>,
      <<"b","m","p">>, <<"w","e","b","p">>, <<"t","i","f","f">>,
      <<"t","i","f">>, <<"h","e","i","c">>, <<"h","e","i","f">> }

dangerous_chars ==
    << <<"/">>, <<"\\">>, <<".", ".">>, <<"<">>, <<">">>, <<":">>,
       <<"\"">>, <<"|">>, <<"?">>, <<"*">>, <<"NUL">> >>

RECURSIVE RemoveAll(_, _)
RemoveAll(s, k) ==
    IF k > Len(dangerous_chars) THEN s
    ELSE RemoveAll(replace(s, dangerous_chars[k]), k + 1)

sanitize_filename(filename) == strip(RemoveAll(filename, 1))

\* Mutant of is_allowed_file: the membership test of line 31 is dropped.
is_allowed_file_any_dot(filename) == HasDot(filename)

is_allowed_file(filename) ==
    IF ~HasDot(filename) THEN FALSE
    ELSE lower(AfterLastDot(filename)) \in ALLOWED_EXTENSIONS

get_extension(filename) ==
    IF HasDot(filename) THEN lower(AfterLastDot(filename)) ELSE <<>>

validate_file_size(file_size, max_size_mb) == ~(file_size > max_size_mb * MB)

\* ------------------------------------------------------ InferenceService
\* Raw sigmoid output and confidence are in hundredths (Scale = 1.0).
Half == Scale \div 2

\* Lines 207-212: the probabilities reported for the two classes.
Probabilities(prob_value) ==
    [Normal |-> prob_value, DownSyndrome |-> Scale - prob_value]

\* Mutant of Interpret: the two labels are exchanged.
Interpret_swapped(prob_value) ==
    IF prob_value > Half
    THEN [class |-> "Down Syndrome", confidence |-> prob_value,
          raw |-> prob_value, probabilities |-> Probabilities(prob_value)]
    ELSE [class |-> "Normal", confidence |-> Scale - prob_value,
          raw |-> prob_value, probabilities |-> Probabilities(prob_value)]

\* Mutant of Interpret: the comparison of line 197 is >= instead of >.
Interpret_ge(prob_value) ==
    IF prob_value >= Half
    THEN [class |-> "Normal", confidence |-> prob_value,
          raw |-> prob_value, probabilities |-> Probabilities(prob_value)]
    ELSE [class |-> "Down Syndrome", confidence |-> Scale - prob_value,
          raw |-> prob_value, probabilities |-> Probabilities(prob_value)]

\* Mutant of Interpret: the confidence is the raw output on both branches.
Interpret_raw_confidence(prob_value) ==
    [class |-> IF prob_value > Half THEN "Normal" ELSE "Down Syndrome",
     confidence |-> prob_value, raw |-> prob_value,
     probabilities |-> Probabilities(prob_value)]

\* Lines 194-212: prob_value > 0.5 is Normal with confidence prob_value,
\* otherwise Down Syndrome with confidence 1 - prob_value.
Interpret(prob_value) ==
    IF prob_value > Half
    THEN [class |-> "Normal", confidence |-> prob_value,
          raw |-> prob_value, probabilities |-> Probabilities(prob_value)]
    ELSE [class |-> "Down Syndrome", confidence |-> Scale - prob_value,
          raw |-> prob_value, probabilities |-> Probabilities(prob_value)]

NoResult ==
    [class |-> "none", confidence |-> 0, raw |-> 0,
     probabilities |-> Probabilities(0)]

\* ------------------------------------------------------------- inputs
FileNames ==
    { <<"a", ".", "p", "n", "g">>,
      <<"a", ".", "e", "x", "e">>,
      <<"a">>,
      <<"a", ".", "p", "n", "/", "g">>,
      <<>> }

Users == { <<"a", "l", "i", "c", "e">> }
Probs == {50, 80}
Sizes == {MAX_SIZE_MB * MB, MAX_SIZE_MB * MB + 1}
ExcTexts == {"e1", "e2"}

\* ------------------------------------------------------------------ state
VARIABLES
    _model,              \* inference.py:15  0 (None) or the id of a loaded model object
    _model_loaded,       \* inference.py:16
    nextHandle,          \* number of model objects created so far (object identity)
    everLoaded,          \* history: the holder has been set at some time
    MODEL_DOWNLOAD_URL,  \* config.py:41  "" when not configured
    modelFile,           \* file at MODEL_PATH: "absent", "partial" or "valid"
    pc,                  \* position of every thread
    task,                \* what the thread runs: "preload", "upload", "info" or "none"
    ret,                 \* value returned to the thread by load_model / initialize_model
    seen,                \* history: the handle the holder held when the thread's call began
    rq,                  \* locals of the request a worker is handling
    resp,                \* the response the worker returned last
    files,               \* upload folder: stored filename -> "ok" or "partial"
    db,                  \* committed rows of table predictions
    nextId,              \* next autoincrement id
    now,                 \* UTC clock, in seconds
    reqCount,            \* upload requests started so far
    callCount,           \* get_model_info calls started so far
    lastDelete,          \* the deletion request handled last, and how it ended
    delCount,            \* deletion requests handled so far
    probe                \* a function of the program applied on its own: argument and value

holderVars == <<_model, _model_loaded, nextHandle, everLoaded>>
storeVars == <<files, db, nextId>>
reqVars == <<rq, resp, reqCount, callCount>>
vars == <<_model, _model_loaded, nextHandle, everLoaded, MODEL_DOWNLOAD_URL,
          modelFile, pc, task, ret, seen, rq, resp, files, db, nextId, now,
          reqCount, callCount, lastDelete, delCount, probe>>

NoName == [cls |-> "none", ts |-> 0, user |-> <<>>, ext |-> <<>>]

NoRequest ==
    [hasFile |-> FALSE, fname |-> <<>>, original |-> <<>>,
     user |-> <<>>, result |-> NoResult, inferred |-> FALSE,
     saveTried |-> FALSE, saveOk |-> FALSE, stored |-> NoName,
     commits |-> 0, rowId |-> 0, commitFailed |-> FALSE]

NoResponse ==
    [success |-> FALSE, status |-> 0, error |-> "none", detail |-> "none",
     result |-> NoResult]

ErrorResponse(status, error, detail) ==
    [success |-> FALSE, status |-> status, error |-> error, detail |-> detail,
     result |-> NoResult]

SuccessResponse(result) ==
    [success |-> TRUE, status |-> 200, error |-> "none", detail |-> "none",
     result |-> result]

\* No deletion request was handled yet.
NoDelete == [path |-> "none", ids |-> {}, raised |-> FALSE]

\* No function is being applied on its own.
NoProbe == [arg |-> <<>>, out |-> <<>>, applied |-> FALSE]

\* InferenceService.is_model_available
is_model_available == _model_loaded /\ _model # None

ProgramInit ==
    /\ _model = None
    /\ _model_loaded = FALSE
    /\ nextHandle = 0
    /\ everLoaded = FALSE
    /\ MODEL_DOWNLOAD_URL \in {"", "url"}
    /\ modelFile \in {"absent", "partial", "valid"}
    /\ pc = [p \in Procs |-> IF p = Main THEN "pre_exists" ELSE "idle"]
    /\ task = [p \in Procs |-> IF p = Main THEN "preload" ELSE "none"]
    /\ ret = [p \in Procs |-> None]
    /\ seen = [p \in Procs |-> None]
    /\ rq = [p \in Workers |-> NoRequest]
    /\ resp = [p \in Workers |-> NoResponse]
    /\ files = <<>>
    /\ db = {}
    /\ nextId = 1
    /\ now = 0
    /\ reqCount = 0
    /\ callCount = 0
    /\ lastDelete = NoDelete
    /\ delCount = 0

Init ==
    /\ ProgramInit
    /\ probe = NoProbe

Goto(p, l) == pc' = [pc EXCEPT ![p] = l]

\* load_model / initialize_model hands v back to its caller: preload_model
\* (app/__init__.py:215), InferenceService.predict (inference.py:182) or
\* InferenceService.get_model_info (inference.py:227).
Return(p, v) ==
    /\ ret' = [ret EXCEPT ![p] = v]
    /\ Goto(p, CASE task[p] = "upload" -> "p_model"
                 [] task[p] = "info" -> "p_info"
                 [] OTHER -> "done")

\* The call of load_model / initialize_model begins.
Call(p, l) ==
    /\ Goto(p, l)
    /\ seen' = [seen EXCEPT ![p] = IF is_model_available THEN _model ELSE None]
    /\ ret' = [ret EXCEPT ![p] = None]

\* Variables no step of the InferenceService touches.
pipelineVars == <<MODEL_DOWNLOAD_URL, task, rq, resp, files, db, nextId, now,
                  reqCount, callCount, lastDelete, delCount, probe>>

\* -------------------------------------------------- app/__init__.py preload_model
\* Lines 199-209: without a file and without a URL start-up gives up at once;
\* otherwise it calls initialize_model(MODEL_PATH, MODEL_DOWNLOAD_URL).
preload_model(p) ==
    /\ p = Main
    /\ pc[p] = "pre_exists"
    /\ IF modelFile = "absent" /\ MODEL_DOWNLOAD_URL = ""
       THEN Goto(p, "done") /\ UNCHANGED <<ret, seen>>
       ELSE Call(p, "im_chk_flag")
    /\ UNCHANGED <<holderVars, modelFile, pipelineVars>>

\* ------------------------------------------------- InferenceService.load_model
\* Line 157, first operand of the condition: read of _model_loaded.
lm_chk_flag(p) ==
    /\ pc[p] = "lm_chk_flag"
    /\ Goto(p, IF _model_loaded THEN "lm_chk_model" ELSE "im_chk_flag")
    /\ UNCHANGED <<holderVars, modelFile, ret, seen, pipelineVars>>

\* Line 157, second operand: read of _model.
lm_chk_model(p) ==
    /\ pc[p] = "lm_chk_model"
    /\ Goto(p, IF _model # None THEN "lm_ret" ELSE "im_chk_flag")
    /\ UNCHANGED <<holderVars, modelFile, ret, seen, pipelineVars>>

\* Line 158: return _model (the global is read again).
lm_ret(p) ==
    /\ pc[p] = "lm_ret"
    /\ Return(p, _model)
    /\ UNCHANGED <<holderVars, modelFile, seen, pipelineVars>>

\* -------------------------------------------- InferenceService.initialize_model
\* Line 41, read of _model_loaded.
im_chk_flag(p) ==
    /\ pc[p] = "im_chk_flag"
    /\ Goto(p, IF _model_loaded THEN "im_chk_model" ELSE "im_exists")
    /\ UNCHANGED <<holderVars, modelFile, ret, seen, pipelineVars>>

\* Line 41, read of _model.
im_chk_model(p) ==
    /\ pc[p] = "im_chk_model"
    /\ Goto(p, IF _model # None THEN "im_ret" ELSE "im_exists")
    /\ UNCHANGED <<holderVars, modelFile, ret, seen, pipelineVars>>

\* Line 42: return _model.
im_ret(p) ==
    /\ pc[p] = "im_ret"
    /\ Return(p, _model)
    /\ UNCHANGED <<holderVars, modelFile, seen, pipelineVars>>

\* Mutant of im_exists: the test of download_url at line 48 is dropped, so
\* download_model is called for every missing file.
im_exists_always_download(p) ==
    /\ pc[p] = "im_exists"
    /\ Goto(p, IF modelFile # "absent" THEN "try_gpu" ELSE "dl_get")
    /\ UNCHANGED <<holderVars, modelFile, ret, seen, pipelineVars>>

\* Lines 45-55: os.path.exists(model_path); download when absent and a URL is
\* given, return None when absent and no URL is given.
im_exists(p) ==
    /\ pc[p] = "im_exists"
    /\ IF modelFile # "absent"
       THEN Goto(p, "try_gpu") /\ UNCHANGED ret
       ELSE IF MODEL_DOWNLOAD_URL # ""
            THEN Goto(p, "dl_get") /\ UNCHANGED ret
            ELSE Return(p, None)
    /\ UNCHANGED <<holderVars, modelFile, seen, pipelineVars>>

\* Some other thread is between open() and the end of the chunk loop.
OtherWriter(p) == \E q \in Procs \ {p} : pc[q] = "dl_write"

\* Mutant of dl_get: initialize_model ignores the False of download_model
\* (lines 50-52 without the return) and goes on to the load.
dl_get_ignore_failure(p) ==
    /\ pc[p] = "dl_get"
    /\ \/ Goto(p, "dl_open")
       \/ Goto(p, "try_gpu")
    /\ UNCHANGED <<holderVars, modelFile, ret, seen, pipelineVars>>

\* download_model lines 105-119: URL test, makedirs, requests.get,
\* raise_for_status.  A failure makes download_model return False, and
\* initialize_model (lines 50-52) return None.
dl_get(p) ==
    /\ pc[p] = "dl_get"
    /\ IF MODEL_DOWNLOAD_URL = ""
       THEN Return(p, None)
       ELSE \/ Goto(p, "dl_open") /\ UNCHANGED ret
            \/ Return(p, None)
    /\ UNCHANGED <<holderVars, modelFile, seen, pipelineVars>>

\* download_model line 122: open(destination, 'wb') creates or truncates the
\* file at the model path itself; it may raise (download_model returns False).
dl_open(p) ==
    /\ pc[p] = "dl_open"
    /\ \/ modelFile' = "partial" /\ Goto(p, "dl_write") /\ UNCHANGED ret
       \/ UNCHANGED modelFile /\ Return(p, None)
    /\ UNCHANGED <<holderVars, seen, pipelineVars>>

\* download_model lines 123-140: the chunk loop runs to its end (True), or
\* an exception ends it and the bytes written so far stay at the model path
\* (False).  With a second writer on the same path the content at the end is
\* either of the two; a file unlinked meanwhile stays unlinked.
dl_write(p) ==
    /\ pc[p] = "dl_write"
    /\ \/ /\ modelFile' \in IF modelFile = "absent" THEN {"absent"}
                            ELSE IF OtherWriter(p) THEN {"partial", "valid"}
                            ELSE {"valid"}
          /\ Goto(p, "try_gpu")
          /\ UNCHANGED ret
       \/ /\ modelFile' \in IF modelFile = "absent" THEN {"absent"}
                            ELSE {"partial"}
          /\ Return(p, None)
    /\ UNCHANGED <<holderVars, seen, pipelineVars>>

\* Lines 57-74: import tensorflow, list_physical_devices, set_memory_growth.
\* Any exception raised here is caught by the handler at line 87.
try_gpu(p) ==
    /\ pc[p] = "try_gpu"
    /\ \/ Goto(p, "load")
       \/ Goto(p, "exc1")
    /\ UNCHANGED <<holderVars, modelFile, ret, seen, pipelineVars>>

\* Lines 77-78: _model = tf.keras.models.load_model(model_path).  Only a
\* complete file can be loaded, and loading it may still raise.
load(p) ==
    /\ pc[p] = "load"
    /\ \/ /\ modelFile = "valid"
          /\ nextHandle' = nextHandle + 1
          /\ _model' = nextHandle + 1
          /\ everLoaded' = (everLoaded \/ _model_loaded)
          /\ Goto(p, "set_flag")
          /\ UNCHANGED _model_loaded
       \/ /\ Goto(p, "exc1")
          /\ UNCHANGED holderVars
    /\ UNCHANGED <<modelFile, ret, seen, pipelineVars>>

\* Line 79: _model_loaded = True.
set_flag(p) ==
    /\ pc[p] = "set_flag"
    /\ _model_loaded' = TRUE
    /\ everLoaded' = (everLoaded \/ _model # None)
    /\ Goto(p, "log_shape")
    /\ UNCHANGED <<_model, nextHandle, modelFile, ret, seen, pipelineVars>>

\* Lines 81-83: _model.input_shape reads the global again; on None the
\* AttributeError is caught at line 87.
log_shape(p) ==
    /\ pc[p] = "log_shape"
    /\ Goto(p, IF _model # None THEN "im_ret_new" ELSE "exc1")
    /\ UNCHANGED <<holderVars, modelFile, ret, seen, pipelineVars>>

\* Line 85: return _model.
im_ret_new(p) ==
    /\ pc[p] = "im_ret_new"
    /\ Return(p, _model)
    /\ UNCHANGED <<holderVars, modelFile, seen, pipelineVars>>

\* Lines 87-89: except Exception: _model = None.
exc1(p) ==
    /\ pc[p] = "exc1"
    /\ _model' = None
    /\ Goto(p, "exc2")
    /\ UNCHANGED <<_model_loaded, nextHandle, everLoaded, modelFile, ret, seen,
                   pipelineVars>>

\* Lines 90-91: _model_loaded = False; return None.
exc2(p) ==
    /\ pc[p] = "exc2"
    /\ _model_loaded' = FALSE
    /\ Return(p, None)
    /\ UNCHANGED <<_model, nextHandle, everLoaded, modelFile, seen, pipelineVars>>

\* ------------------------------------------------- dashboard.py predict
ErrNoFile == "Tidak ada file yang diunggah."
ErrNoSelection == "Tidak ada file yang dipilih."
ErrFormat == "Format file tidak didukung."
ErrSize == "Ukuran file terlalu besar."
ErrDecode == "Gagal memuat gambar"
ErrModel == "Model tidak tersedia. Silakan hubungi administrator."
ErrPredict == "Gagal melakukan prediksi"
ErrInternal == "Terjadi kesalahan internal. Silakan coba lagi."

\* Variables no step of the request handler touches before it stores.
serviceVars == <<holderVars, MODEL_DOWNLOAD_URL, modelFile, lastDelete,
                 delCount, probe>>
handlerVars == <<serviceVars, task, callCount>>

\* return jsonify(...): the request ends with response r.
Respond(p, r) ==
    /\ resp' = [resp EXCEPT ![p] = r]
    /\ Goto(p, "done")

\* result['class'].replace(' ', '')
ClassName(class) == IF class = "Down Syndrome" THEN "DownSyndrome" ELSE class

\* Mutant of StoredExt: every artifact is stored with the extension jpg.
StoredExt_always_jpg(original) == <<"j", "p", "g">>

\* Mutant of StoredExt: heic and heif keep their extension.
StoredExt_keep_heic(original) ==
    LET e == get_extension(original)
    IN  IF e = <<>> THEN <<"j","p","g">> ELSE e

\* Lines 98-102: get_extension(original_filename) or 'jpg'; heic and heif
\* are stored as jpg.
StoredExt(original) ==
    LET e == get_extension(original)
        ext == IF e = <<>> THEN <<"j","p","g">> ELSE e
    IN  IF lower(ext) \in {<<"h","e","i","c">>, <<"h","e","i","f">>}
        THEN <<"j","p","g">> ELSE ext

\* werkzeug's secure_filename (dashboard.py:97) on ASCII text: path
\* separators become blanks, the words are joined with '_', every character
\* outside [A-Za-z0-9_.-] is dropped, dots and underscores are stripped from
\* both ends.
SepToSpace(s) == [i \in 1..Len(s) |-> IF s[i] = "/" THEN " " ELSE s[i]]

RECURSIVE JoinWords(_)
JoinWords(s) ==
    IF s = <<>> THEN <<>>
    ELSE IF Head(s) \in Whitespace THEN <<"_">> \o JoinWords(lstrip(s))
    ELSE <<Head(s)>> \o JoinWords(Tail(s))

Digits == <<"0", "1", "2", "3", "4", "5", "6", "7", "8", "9">>

SafeChars ==
    {Upper[i] : i \in 1..26} \cup {LowerLetters[i] : i \in 1..26}
        \cup {Digits[i] : i \in 1..10} \cup {"_", ".", "-"}

IsSafeChar(c) == c \in SafeChars

RECURSIVE StripDotsUnderscores(_)
StripDotsUnderscores(s) ==
    IF s # <<>> /\ Head(s) \in {".", "_"} THEN StripDotsUnderscores(Tail(s))
    ELSE IF s # <<>> /\ s[Len(s)] \in {".", "_"}
         THEN StripDotsUnderscores(SubSeq(s, 1, Len(s) - 1))
         ELSE s

secure_filename(filename) ==
    StripDotsUnderscores(
        SelectSeq(JoinWords(strip(SepToSpace(filename))), IsSafeChar))

\* Mutant of NewFilename: the owner name is used as it is (line 97 without
\* secure_filename).
NewFilename_raw_owner(result, timestamp, username, original) ==
    [cls |-> ClassName(result.class), ts |-> timestamp, user |-> username,
     ext |-> StoredExt(original)]

\* Lines 95-104: the parts of new_filename.
NewFilename(result, timestamp, username, original) ==
    [cls |-> ClassName(result.class), ts |-> timestamp,
     user |-> secure_filename(username), ext |-> StoredExt(original)]

\* The instant the clock value 0 stands for, as strftime('%Y%m%d') gives it.
EpochDate == <<"2", "0", "2", "4", "0", "1", "0", "1">>

TwoDigits(n) == <<Digits[((n \div 10) % 10) + 1], Digits[(n % 10) + 1]>>

\* Line 95: datetime.utcnow().strftime('%Y%m%d_%H%M%S'), t seconds after the
\* epoch (within its first day).
Timestamp(t) ==
    EpochDate \o <<"_">> \o TwoDigits(t \div 3600)
        \o TwoDigits((t \div 60) % 60) \o TwoDigits(t % 60)

\* The characters of a class name.
ClassChars(cls) ==
    IF cls = "Normal" THEN <<"N", "o", "r", "m", "a", "l">>
    ELSE IF cls = "DownSyndrome"
         THEN <<"D", "o", "w", "n", "S", "y", "n", "d", "r", "o", "m", "e">>
         ELSE <<>>

\* Line 104: f"{class_name}_{timestamp}_{username}.{ext}".
FileNameText(n) ==
    ClassChars(n.cls) \o <<"_">> \o Timestamp(n.ts) \o <<"_">> \o n.user
        \o <<".">> \o n.ext

\* The file system after a write of name n with content state st.
Put(fs, n, st) == [x \in (DOMAIN fs) \cup {n} |-> IF x = n THEN st ELSE fs[x]]

\* A request arrives at an idle worker (after start-up has finished).
StartRequest(p) ==
    /\ p \in Workers
    /\ pc[p] \in {"idle", "done"}
    /\ pc[Main] = "done"
    /\ reqCount < MaxRequests
    /\ \E hasFile \in BOOLEAN, fname \in FileNames, user \in Users :
          /\ hasFile \/ fname = <<>>
          /\ rq' = [rq EXCEPT ![p] =
                      [NoRequest EXCEPT !.hasFile = hasFile, !.fname = fname,
                                        !.user = user]]
    /\ resp' = [resp EXCEPT ![p] = NoResponse]
    /\ reqCount' = reqCount + 1
    /\ task' = [task EXCEPT ![p] = "upload"]
    /\ ret' = [ret EXCEPT ![p] = None]
    /\ seen' = [seen EXCEPT ![p] = None]
    /\ Goto(p, "h_file")
    /\ UNCHANGED <<serviceVars, callCount, storeVars, now>>

\* Lines 37-50: 'file' in request.files, file.filename == ''.
h_file(p) ==
    /\ pc[p] = "h_file"
    /\ IF ~rq[p].hasFile
       THEN Respond(p, ErrorResponse(400, ErrNoFile, "none"))
       ELSE IF rq[p].fname = <<>>
            THEN Respond(p, ErrorResponse(400, ErrNoSelection, "none"))
            ELSE Goto(p, "h_name") /\ UNCHANGED resp
    /\ UNCHANGED <<handlerVars, ret, seen, rq, reqCount, storeVars, now>>

\* Lines 53-59: sanitize_filename, then is_allowed_file on the sanitized name.
h_name(p) ==
    /\ pc[p] = "h_name"
    /\ LET original_filename == sanitize_filename(rq[p].fname) IN
          IF ~is_allowed_file(original_filename)
          THEN /\ Respond(p, ErrorResponse(400, ErrFormat, "none"))
               /\ UNCHANGED rq
          ELSE /\ rq' = [rq EXCEPT ![p].original = original_filename]
               /\ Goto(p, "h_size")
               /\ UNCHANGED resp
    /\ UNCHANGED <<handlerVars, ret, seen, reqCount, storeVars, now>>

\* Lines 62-70: file.read(), validate_file_size(file_bytes, max_size_mb=10).
h_size(p) ==
    /\ pc[p] = "h_size"
    /\ \E file_size \in Sizes :
          IF ~validate_file_size(file_size, MAX_SIZE_MB)
          THEN Respond(p, ErrorResponse(400, ErrSize, "none"))
          ELSE Goto(p, "h_decode") /\ UNCHANGED resp
    /\ UNCHANGED <<handlerVars, ret, seen, rq, reqCount, storeVars, now>>

\* Lines 73-79: ImageProcessor.load_image; a ValueError is answered with 400.
h_decode(p) ==
    /\ pc[p] = "h_decode"
    /\ \/ Goto(p, "h_prep") /\ UNCHANGED resp
       \/ Respond(p, ErrorResponse(400, ErrDecode, "none"))
    /\ UNCHANGED <<handlerVars, ret, seen, rq, reqCount, storeVars, now>>

\* Lines 82-86: preprocess_for_model, then the call InferenceService.predict
\* -> load_model() (inference.py:182).  An exception of preprocess_for_model
\* reaches the handler at line 147.
h_prep(p) ==
    /\ pc[p] = "h_prep"
    /\ \/ Call(p, "lm_chk_flag") /\ UNCHANGED resp
       \/ /\ Respond(p, ErrorResponse(500, ErrInternal, "none"))
          /\ UNCHANGED <<ret, seen>>
    /\ UNCHANGED <<handlerVars, rq, reqCount, storeVars, now>>

\* Mutant of p_model: the handler of RuntimeError (dashboard.py:87-92) lacks
\* its return, so a failed inference falls through to the storing code.
p_model_no_return(p) ==
    /\ pc[p] = "p_model"
    /\ IF ret[p] = None
       THEN Goto(p, "h_save") /\ UNCHANGED <<rq, resp>>
       ELSE \E prob_value \in Probs :
               /\ rq' = [rq EXCEPT ![p].result = Interpret(prob_value),
                                   ![p].inferred = TRUE]
               /\ Goto(p, "h_save")
               /\ UNCHANGED resp
    /\ UNCHANGED <<handlerVars, ret, seen, reqCount, storeVars, now>>

\* Mutant of p_model: the record is written right after inference and the
\* image only afterwards (lines 115-119 moved below line 130).
p_model_commit_first(p) ==
    /\ pc[p] = "p_model"
    /\ IF ret[p] = None
       THEN /\ Respond(p, ErrorResponse(500, ErrModel, "none"))
            /\ UNCHANGED rq
       ELSE \E prob_value \in Probs :
               /\ rq' = [rq EXCEPT ![p].result = Interpret(prob_value),
                                   ![p].inferred = TRUE]
               /\ Goto(p, "h_commit")
               /\ UNCHANGED resp
    /\ UNCHANGED <<handlerVars, ret, seen, reqCount, storeVars, now>>

\* inference.py:184-216 with dashboard.py:87-92: no model -> RuntimeError;
\* model.predict raises -> RuntimeError carrying the text of the exception;
\* otherwise the sigmoid output is interpreted.
p_model(p) ==
    /\ pc[p] = "p_model"
    /\ IF ret[p] = None
       THEN /\ Respond(p, ErrorResponse(500, ErrModel, "none"))
            /\ UNCHANGED rq
       ELSE \/ \E e \in ExcTexts :
                  /\ Respond(p, ErrorResponse(500, ErrPredict, e))
                  /\ UNCHANGED rq
            \/ \E prob_value \in Probs :
                  /\ rq' = [rq EXCEPT ![p].result = Interpret(prob_value),
                                      ![p].inferred = TRUE]
                  /\ Goto(p, "h_save")
                  /\ UNCHANGED resp
    /\ UNCHANGED <<handlerVars, ret, seen, reqCount, storeVars, now>>

\* Mutant of h_save: the ValueError of save_image is not caught at line 117
\* and reaches the handler of line 147.
h_save_fatal(p) ==
    /\ pc[p] = "h_save"
    /\ LET new_filename ==
               NewFilename(rq[p].result, now, rq[p].user, rq[p].original) IN
          \/ /\ files' = [x \in (DOMAIN files) \cup {new_filename} |->
                            IF x = new_filename THEN "ok" ELSE files[x]]
             /\ rq' = [rq EXCEPT ![p].saveTried = TRUE, ![p].saveOk = TRUE,
                                 ![p].stored = new_filename]
             /\ Goto(p, "h_commit")
             /\ UNCHANGED resp
          \/ /\ UNCHANGED files
             /\ rq' = [rq EXCEPT ![p].saveTried = TRUE, ![p].saveOk = FALSE,
                                 ![p].stored = new_filename]
             /\ Respond(p, ErrorResponse(500, ErrInternal, "none"))
    /\ UNCHANGED <<handlerVars, ret, seen, reqCount, db, nextId, now>>

\* Lines 94-119: the filename is built from the clock, and save_image writes
\* the file.  Every exception of save_image arrives as ValueError
\* (image_processor.py:141-142) and is only logged; a failed write leaves
\* nothing or a truncated file at the path.
h_save(p) ==
    /\ pc[p] = "h_save"
    /\ LET new_filename ==
               NewFilename(rq[p].result, now, rq[p].user, rq[p].original) IN
          \/ /\ files' = Put(files, new_filename, "ok")
             /\ rq' = [rq EXCEPT ![p].saveTried = TRUE, ![p].saveOk = TRUE,
                                 ![p].stored = new_filename]
          \/ /\ files' \in {files, Put(files, new_filename, "partial")}
             /\ rq' = [rq EXCEPT ![p].saveTried = TRUE, ![p].saveOk = FALSE,
                                 ![p].stored = new_filename]
    /\ Goto(p, "h_commit")
    /\ UNCHANGED <<handlerVars, ret, seen, resp, reqCount, db, nextId, now>>

\* Mutant of h_commit: the failing commit is not caught at line 147 and the
\* request ends without the answer of lines 149-152.
h_commit_uncaught(p) ==
    /\ pc[p] = "h_commit"
    /\ \/ /\ db' = db \cup {[id |-> nextId, user |-> rq[p].user,
                              filename |-> rq[p].stored,
                              original_filename |-> rq[p].original,
                              result_class |-> rq[p].result.class,
                              confidence |-> rq[p].result.confidence]}
          /\ nextId' = nextId + 1
          /\ rq' = [rq EXCEPT ![p].commits = @ + 1, ![p].rowId = nextId]
          /\ Respond(p, SuccessResponse(rq[p].result))
       \/ /\ Goto(p, "done")
          /\ rq' = [rq EXCEPT ![p].commitFailed = TRUE]
          /\ UNCHANGED <<db, nextId, resp>>
    /\ UNCHANGED <<handlerVars, ret, seen, reqCount, files, now>>

\* The row of lines 122-128.
NewPrediction(id, r) ==
    [id |-> id, user |-> r.user, filename |-> r.stored,
     original_filename |-> r.original, result_class |-> r.result.class,
     confidence |-> r.result.confidence]

\* Mutant of h_commit: the row is added and committed twice.
h_commit_twice(p) ==
    /\ pc[p] = "h_commit"
    /\ db' = db \cup {[id |-> nextId, user |-> rq[p].user,
                        filename |-> rq[p].stored,
                        original_filename |-> rq[p].original,
                        result_class |-> rq[p].result.class,
                        confidence |-> rq[p].result.confidence],
                       [id |-> nextId + 1, user |-> rq[p].user,
                        filename |-> rq[p].stored,
                        original_filename |-> rq[p].original,
                        result_class |-> rq[p].result.class,
                        confidence |-> rq[p].result.confidence]}
    /\ nextId' = nextId + 2
    /\ rq' = [rq EXCEPT ![p].commits = @ + 2, ![p].rowId = nextId]
    /\ Respond(p, SuccessResponse(rq[p].result))
    /\ UNCHANGED <<handlerVars, ret, seen, reqCount, files, now>>

\* Lines 121-152: db.session.add, db.session.commit, the success response.
\* A failing commit reaches the handler at line 147; the pending row is
\* discarded with the session.
h_commit(p) ==
    /\ pc[p] = "h_commit"
    /\ \/ /\ db' = db \cup {NewPrediction(nextId, rq[p])}
          /\ nextId' = nextId + 1
          /\ rq' = [rq EXCEPT ![p].commits = @ + 1, ![p].rowId = nextId]
          /\ Respond(p, SuccessResponse(rq[p].result))
       \/ /\ Respond(p, ErrorResponse(500, ErrInternal, "none"))
          /\ rq' = [rq EXCEPT ![p].commitFailed = TRUE]
          /\ UNCHANGED <<db, nextId>>
    /\ UNCHANGED <<handlerVars, ret, seen, reqCount, files, now>>

\* ------------------------------------- InferenceService.get_model_info
\* Line 227: a thread asks for the model information: model = load_model().
get_model_info(p) ==
    /\ p \in Workers
    /\ pc[p] \in {"idle", "done"}
    /\ pc[Main] = "done"
    /\ callCount < MaxCalls
    /\ callCount' = callCount + 1
    /\ task' = [task EXCEPT ![p] = "info"]
    /\ rq' = [rq EXCEPT ![p] = NoRequest]
    /\ resp' = [resp EXCEPT ![p] = NoResponse]
    /\ Call(p, "lm_chk_flag")
    /\ UNCHANGED <<serviceVars, reqCount, storeVars, now>>

\* Lines 229-236: None without a model, else the shapes of the local model.
p_info(p) ==
    /\ pc[p] = "p_info"
    /\ Goto(p, "done")
    /\ UNCHANGED <<serviceVars, task, ret, seen, reqVars, storeVars, now>>

\* ------------------------------------------------------- deleting records
\* The upload folder after os.remove of every name in names.
Remove(fs, names) == [x \in (DOMAIN fs) \ names |-> fs[x]]

\* The rows with an id in ids.
Rows(ids) == {r \in db : r.id \in ids}

\* The files of rows that exist in the upload folder (os.path.exists).
ExistingFiles(rows) == {r.filename : r \in rows} \cap DOMAIN files

\* One deletion request for the rows with an id in ids, through the handler
\* named path.  Every existing file of those rows is removed, except the
\* ones in kept, for which os.remove raises OSError (only logged).  Then the
\* rows are deleted and the session committed; when the commit raises the
\* rows stay and the exception leaves the handler, unless it is caught.
Delete(path, ids, kept, commitOk, caught) ==
    /\ delCount < MaxDeletes
    /\ ids # {}
    /\ kept \subseteq ExistingFiles(Rows(ids))
    /\ files' = Remove(files, ExistingFiles(Rows(ids)) \ kept)
    /\ db' = IF commitOk THEN db \ Rows(ids) ELSE db
    /\ lastDelete' = [path |-> path, ids |-> ids,
                      raised |-> ~commitOk /\ ~caught]
    /\ delCount' = delCount + 1
    /\ UNCHANGED <<holderVars, MODEL_DOWNLOAD_URL, modelFile, pc, task, ret,
                   seen, reqVars, nextId, now, probe>>

\* records.py:242-267: Prediction.query.get_or_404(prediction_id), os.remove
\* inside try/except OSError, db.session.delete, db.session.commit.
delete_record ==
    \E row \in db, fileKept \in BOOLEAN, commitOk \in BOOLEAN :
        /\ fileKept => row.filename \in DOMAIN files
        /\ Delete("delete_record", {row.id},
                  IF fileKept THEN {row.filename} ELSE {}, commitOk, FALSE)

\* records.py:270-307: the rows found for the posted ids; per row os.remove
\* inside try/except OSError and db.session.delete; one commit at the end.
delete_selected ==
    \E ids \in SUBSET {r.id : r \in db}, commitOk \in BOOLEAN :
        \E kept \in SUBSET ExistingFiles(Rows(ids)) :
            Delete("delete_selected", ids, kept, commitOk, FALSE)

\* admin/views.py:150-163: on_model_delete removes the file (OSError only
\* logged); the admin view then deletes the row and commits, and catches a
\* failing commit.
on_model_delete ==
    \E row \in db, fileKept \in BOOLEAN, commitOk \in BOOLEAN :
        /\ fileKept => row.filename \in DOMAIN files
        /\ Delete("on_model_delete", {row.id},
                  IF fileKept THEN {row.filename} ELSE {}, commitOk, TRUE)

\* ---------------------------------------------------------- environment
\* A second of the UTC clock passes.
Tick ==
    /\ now < MaxClock
    /\ now' = now + 1
    /\ UNCHANGED <<serviceVars, pc, task, ret, seen, reqVars, storeVars>>

\* The file at MODEL_PATH is removed from outside the program.
RemoveModelFile ==
    /\ modelFile # "absent"
    /\ modelFile' = "absent"
    /\ UNCHANGED <<holderVars, MODEL_DOWNLOAD_URL, pc, task, ret, seen, reqVars,
                   storeVars, now, lastDelete, delCount, probe>>

\* The steps of load_model / initialize_model / download_model.
HolderStep(p) ==
    \/ lm_chk_flag(p)
    \/ lm_chk_model(p)
    \/ lm_ret(p)
    \/ im_chk_flag(p)
    \/ im_exists(p)
    \/ dl_get(p)
    \/ dl_open(p)
    \/ dl_write(p)
    \/ try_gpu(p)
    \/ load(p)
    \/ set_flag(p)
    \/ log_shape(p)
    \/ im_ret_new(p)
    \/ exc1(p)
    \/ exc2(p)

\* Steps of initialize_model that only a concurrent writer of the holder
\* makes reachable: line 41 finding _model_loaded true.
RacyHolderStep(p) ==
    \/ im_chk_model(p)
    \/ im_ret(p)

\* The steps of dashboard.predict.
UploadStep(p) ==
    \/ StartRequest(p)
    \/ h_file(p)
    \/ h_name(p)
    \/ h_size(p)
    \/ h_decode(p)
    \/ h_prep(p)
    \/ p_model(p)
    \/ h_save(p)
    \/ h_commit(p)

\* Start-up, then NumWorkers request threads handling uploads concurrently.
Next ==
    \/ preload_model(Main)
    \/ \E p \in Procs : HolderStep(p) \/ RacyHolderStep(p)
    \/ \E p \in Workers : UploadStep(p)
    \/ Tick
    \/ RemoveModelFile

Spec == Init /\ [][Next]_vars

\* The program serving its upload requests one at a time (one request thread).
NextSeq ==
    \/ preload_model(Main)
    \/ \E p \in {Main, 1} : HolderStep(p)
    \/ UploadStep(1)
    \/ Tick
    \/ RemoveModelFile

SpecSeq == Init /\ [][NextSeq]_vars

\* The model holder under concurrent callers: start-up, then NumWorkers
\* threads calling get_model_info.
NextHolder ==
    \/ preload_model(Main)
    \/ \E p \in Procs : HolderStep(p) \/ RacyHolderStep(p)
    \/ \E p \in Workers : get_model_info(p) \/ p_info(p)
    \/ RemoveModelFile

SpecHolder == Init /\ [][NextHolder]_vars

\* Uploads served one at a time, and records deleted between their steps.
NextStore ==
    \/ preload_model(Main)
    \/ \E p \in {Main, 1} : HolderStep(p)
    \/ UploadStep(1)
    \/ delete_record
    \/ delete_selected
    \/ on_model_delete
    \/ Tick
    \/ RemoveModelFile

SpecStore == Init /\ [][NextStore]_vars

\* A first deployment: nothing at MODEL_PATH yet and a download URL configured
\* (app/__init__.py:199-215 then runs the download at start-up); uploads are
\* served one at a time.
InitFirstRun ==
    /\ Init
    /\ modelFile = "absent"
    /\ MODEL_DOWNLOAD_URL = "url"

SpecFirstRun == InitFirstRun /\ [][NextSeq]_vars

\* ---------------------------------------- functions applied on their own
\* The raw outputs of the model, in hundredths: 0.00 .. 1.00.
RawProbs == 0..Scale

InitInterpret ==
    /\ ProgramInit
    /\ probe \in {[arg |-> p, out |-> <<>>, applied |-> FALSE] : p \in RawProbs}

\* InferenceService.predict lines 194-212 applied to the raw output probe.arg.
interpret ==
    /\ ~probe.applied
    /\ probe.arg \in RawProbs
    /\ probe' = [probe EXCEPT !.out = Interpret(probe.arg), !.applied = TRUE]
    /\ UNCHANGED <<holderVars, MODEL_DOWNLOAD_URL, modelFile, pc, task, ret,
                   seen, reqVars, storeVars, now, lastDelete, delCount>>

SpecInterpret == InitInterpret /\ [][interpret]_vars

\* The characters filenames are built from here: a letter, the dot, a path
\* separator, one of the other characters sanitize_filename removes, a blank.
Chars == {"a", ".", "/", "<", " "}

\* Every string of at most n of these characters.
Strings(n) == UNION {[1..k -> Chars] : k \in 0..n}

InitSanitize ==
    /\ ProgramInit
    /\ probe \in {[arg |-> f, out |-> <<>>, applied |-> FALSE] :
                    f \in Strings(MaxLen)}

\* ImageProcessor.sanitize_filename applied to the string probe.arg.
sanitize ==
    /\ ~probe.applied
    /\ probe' = [probe EXCEPT !.out = sanitize_filename(probe.arg),
                              !.applied = TRUE]
    /\ UNCHANGED <<holderVars, MODEL_DOWNLOAD_URL, modelFile, pc, task, ret,
                   seen, reqVars, storeVars, now, lastDelete, delCount>>

SpecSanitize == InitSanitize /\ [][sanitize]_vars

\* The filenames a client sends with an upload: the accepted formats in
\* both cases, a name with two dots, a name that is accepted only after
\* sanitising, a rejected one, and names with traversal segments.
UploadNames ==
    { <<"a", ".", "p", "n", "g">>,
      <<"A", ".", "P", "N", "G">>,
      <<"a", ".", "H", "E", "I", "C">>,
      <<"a", ".", "h", "e", "i", "f">>,
      <<"a", ".", "t", "i", "f">>,
      <<"a", ".", "j", "p", "e", "g">>,
      <<"a", ".", "b", ".", "g", "i", "f">>,
      <<"a", ".", "p", "n", "/", "g">>,
      <<"a", ".", "e", "x", "e">>,
      <<".", ".", "/", ".", ".", "/", "e", "t", "c", "/", "p", "a", "s", "s", "w", "d", ".", "p", "n", "g">>,
      <<".", "<", ".", "/", "a", ".", "w", "e", "b", "p">> }

\* The names an owner may have: a plain one and ones with blanks, path
\* separators and dots.
Owners ==
    { <<"a", "l", "i", "c", "e">>,
      <<".", ".", "/", "b">>,
      <<"a", " ", "b">>,
      <<"a", ".", ".", "b">>,
      <<"a", "/", ".", ".", "/", "b">>,
      <<".", ".">> }

InitFilename ==
    /\ ProgramInit
    /\ probe \in {[arg |-> [fname |-> f, user |-> u, prob |-> q, ts |-> t],
                    out |-> <<>>, applied |-> FALSE] :
                      f \in UploadNames, u \in Owners, q \in Probs,
                      t \in 0..MaxClock}

\* The name under which predict stores the upload probe.arg (dashboard.py
\* lines 53-59 and 95-104) when the model gives probe.arg.prob at the instant
\* probe.arg.ts; ok is FALSE when the filename is rejected at line 55.
store_name ==
    /\ ~probe.applied
    /\ LET a == probe.arg
           original_filename == sanitize_filename(a.fname)
           result == Interpret(a.prob)
       IN  probe' =
             [probe EXCEPT
                !.applied = TRUE,
                !.out =
                  IF ~is_allowed_file(original_filename)
                  THEN [ok |-> FALSE, original |-> original_filename,
                        result |-> NoResult, name |-> NoName]
                  ELSE [ok |-> TRUE, original |-> original_filename,
                        result |-> result,
                        name |-> NewFilename(result, a.ts, a.user,
                                             original_filename)]]
    /\ UNCHANGED <<holderVars, MODEL_DOWNLOAD_URL, modelFile, pc, task, ret,
                   seen, reqVars, storeVars, now, lastDelete, delCount>>

SpecFilename == InitFilename /\ [][store_name]_vars

\* The values of the environment variable MAX_CONTENT_LENGTH (config.py:33),
\* in megabytes: below, at and above the handler's own limit.
ConfiguredMB == {5, MAX_SIZE_MB, 20}

\* Payload lengths around each ceiling, in bytes.
PayloadSizes ==
    {c * MB + d : c \in ConfiguredMB, d \in {-1, 0, 1}}

\* The bytes of a multipart request body around the payload.
Overheads == {1, 2}

InitSize ==
    /\ ProgramInit
    /\ probe \in {[arg |-> [MAX_CONTENT_LENGTH |-> c * MB, file_size |-> n,
                             overhead |-> o],
                    out |-> <<>>, applied |-> FALSE] :
                      c \in ConfiguredMB, n \in PayloadSizes,
                      o \in Overheads}

\* The size checks an upload meets.  The framework refuses a request whose
\* content length exceeds MAX_CONTENT_LENGTH (config.py:33) when its form is
\* first read: before the view (status 413) or at request.files inside the
\* try of predict (line 37, answered at line 147 with status 500).  Then
\* lines 62-70: validate_file_size(file_bytes, max_size_mb=10); a payload
\* that passes goes on to the decode of line 75.
size_check ==
    /\ ~probe.applied
    /\ LET a == probe.arg
           content_length == a.file_size + a.overhead
       IN  \E upstream \in {413, 500} :
              probe' =
                [probe EXCEPT
                   !.applied = TRUE,
                   !.out =
                     IF content_length > a.MAX_CONTENT_LENGTH
                     THEN [stage |-> "upstream", status |-> upstream,
                           error |-> IF upstream = 500 THEN ErrInternal
                                     ELSE "none"]
                     ELSE IF ~validate_file_size(a.file_size, MAX_SIZE_MB)
                          THEN [stage |-> "size", status |-> 400,
                                error |-> ErrSize]
                          ELSE [stage |-> "decode", status |-> 0,
                                error |-> "none"]]
    /\ UNCHANGED <<holderVars, MODEL_DOWNLOAD_URL, modelFile, pc, task, ret,
                   seen, reqVars, storeVars, now, lastDelete, delCount>>

SpecSize == InitSize /\ [][size_check]_vars

TypeOK ==
    /\ _model \in 0..nextHandle
    /\ _model_loaded \in BOOLEAN
    /\ modelFile \in {"absent", "partial", "valid"}
    /\ reqCount \in 0..MaxRequests
    /\ callCount \in 0..MaxCalls
    /\ now \in 0..MaxClock

\* ================================================================ claims

\* The thread is a request thread that moved in this step.
Moved(p) == pc'[p] # pc[p]

\* The worker has finished an upload request.
Finished(p) == task[p] = "upload" /\ pc[p] = "done"

\* C1: a request that has not (yet, or ever) got an inference result changes
\* neither the table of predictions nor the upload folder: every step of a
\* request thread that ends with the request not inferred leaves both as
\* they were, and such a request has no row and no write to its name.
C1_NoPartialRecord ==
    [][\A p \in Workers :
          (Moved(p) /\ ~rq'[p].inferred) =>
              /\ db' = db
              /\ files' = files
              /\ rq'[p].commits = 0
              /\ ~rq'[p].saveTried]_vars

\* C1 witness: the second request failed in the model runtime after the
\* first one had been recorded, and has left no trace.
C1_Witness ==
    \E p \in Workers :
        /\ Finished(p)
        /\ resp[p].error = ErrPredict
        /\ ~rq[p].inferred /\ rq[p].commits = 0 /\ ~rq[p].saveTried
        /\ reqCount = 2
        /\ Cardinality(db) = 1

\* The row the request committed carries the inferred label and confidence.
RecordedResult(p) ==
    \E row \in db :
        /\ row.id = rq[p].rowId
        /\ row.result_class = rq[p].result.class
        /\ row.confidence = rq[p].result.confidence
        /\ row.filename = rq[p].stored

\* The request ended in success with its own result and exactly one row.
SucceededWithOneRecord(p) ==
    /\ resp[p].success
    /\ resp[p].result = rq[p].result
    /\ rq[p].commits = 1
    /\ RecordedResult(p)

C3_Order ==
    [][\A p \in Workers :
          /\ (rq'[p].inferred /\ ~rq[p].inferred) =>
                 (~rq'[p].saveTried /\ rq'[p].commits = 0
                    /\ db' = db /\ files' = files)
          /\ ((rq'[p].saveTried /\ ~rq[p].saveTried)
                \/ (Moved(p) /\ files' # files)) =>
                 (rq[p].inferred /\ rq[p].commits = 0 /\ db' = db)
          /\ ((rq'[p].commits > rq[p].commits)
                \/ (Moved(p) /\ db' # db)) =>
                 (rq[p].inferred /\ rq[p].saveTried)]_vars

\* C3 witness: a request that went through all three events.
C3_Witness ==
    \E p \in Workers :
        /\ Finished(p)
        /\ rq[p].inferred /\ rq[p].saveTried /\ rq[p].saveOk
        /\ rq[p].commits = 1
        /\ rq[p].stored \in DOMAIN files
        /\ RecordedResult(p)

\* C4: a request commits no row or one row, whatever its path: the table
\* never holds more rows than requests were started, no step adds more than
\* one row, and a row is added only by the commit of a request that had
\* none.
C4_AtMostOneRecord ==
    [][/\ Cardinality(db') <= reqCount'
       /\ Cardinality(db' \ db) <= 1
       /\ \A p \in Workers :
             /\ rq'[p].commits \in {0, 1}
             /\ (Moved(p) /\ db' # db) =>
                    (rq[p].commits = 0 /\ rq'[p].commits = 1)]_vars

\* C4 witness: two requests have each committed their row.
C4_Witness ==
    /\ reqCount = 2
    /\ Cardinality(db) = 2
    /\ \E p \in Workers : Finished(p) /\ rq[p].commits = 1

\* The extension the claim speaks of: the text after the last dot, compared
\* without regard to case, is one of the ten allowed ones.
HasAllowedExtension(name) ==
    \E i \in 1..Len(name) :
        /\ name[i] = "."
        /\ \A j \in (i + 1)..Len(name) : name[j] # "."
        /\ [k \in 1..(Len(name) - i) |-> LowerChar(name[i + k])]
               \in ALLOWED_EXTENSIONS

\* The request was turned down as an unsupported format, or is about to be,
\* and nothing of the pipeline behind the filename test has run for it.
RejectedAsUnsupported(p) ==
    /\ pc[p] \in {"h_file", "h_name", "done"}
    /\ pc[p] = "done" => resp[p] = ErrorResponse(400, ErrFormat, "none")
    /\ ~rq[p].inferred /\ ~rq[p].saveTried /\ rq[p].commits = 0
    /\ ret[p] = None

\* C5 as stated: an upload whose filename as sent (not empty: an empty one
\* is answered as no file selected) has no allowed extension is rejected as
\* an unsupported format and never reaches the model.
C5_AsStated ==
    \A p \in Workers :
        (task[p] = "upload" /\ pc[p] # "idle" /\ rq[p].hasFile
           /\ rq[p].fname # <<>>
           /\ ~HasAllowedExtension(rq[p].fname))
            => RejectedAsUnsupported(p)

\* C5 amended: an upload with a non-empty filename whose sanitized form
\* (dangerous characters removed, blanks stripped) has no allowed extension
\* is rejected as an unsupported format and never reaches size check,
\* decoding, the model, the upload folder or the table.
C5_UnsupportedRejected ==
    \A p \in Workers :
        (task[p] = "upload" /\ pc[p] # "idle" /\ rq[p].hasFile
           /\ rq[p].fname # <<>>
           /\ ~HasAllowedExtension(sanitize_filename(rq[p].fname)))
            => RejectedAsUnsupported(p)

\* C5 witness: the upload a.exe was answered with the format error.
C5_Witness ==
    \E p \in Workers :
        /\ Finished(p)
        /\ rq[p].fname = <<"a", ".", "e", "x", "e">>
        /\ resp[p] = ErrorResponse(400, ErrFormat, "none")
        /\ db = {} /\ files = <<>>

\* Positions inside the initialization proper (inference.py:44-91).
SlowPath ==
    {"im_exists", "dl_get", "dl_open", "dl_write", "try_gpu", "load",
     "set_flag", "log_shape", "im_ret_new", "exc1", "exc2"}

\* Positions inside the download/load section (lines 49-50 and 57-85).
LoadSection ==
    {"dl_get", "dl_open", "dl_write", "try_gpu", "load", "set_flag",
     "log_shape", "im_ret_new"}

\* Positions inside load_model / initialize_model / download_model.
InCall ==
    SlowPath \cup {"lm_chk_flag", "lm_chk_model", "lm_ret", "im_chk_flag",
                   "im_chk_model", "im_ret"}

\* The thread's call of load_model / initialize_model returns in this step.
Returns(p) == pc[p] \in InCall /\ pc'[p] \notin InCall

\* No model file, no URL to fetch one from, and no model was ever loaded.
NoModelSource ==
    MODEL_DOWNLOAD_URL = "" /\ modelFile = "absent" /\ nextHandle = 0

\* C6: with the model file missing and no download URL configured (and no
\* model loaded before the file went missing) initialize_model returns None
\* at once, without a download and without a load; the upload that gets no
\* model is answered success=false with the model-unavailable message; no
\* upload succeeds or commits a row, request after request, and the holder
\* stays unset.
C6_ModelUnavailable ==
    [][/\ NoModelSource' =>
             /\ _model' = None /\ ~_model_loaded'
             /\ \A p \in Procs : pc'[p] \notin {"dl_get", "dl_open", "dl_write"}
             /\ \A p \in Workers :
                   (task'[p] = "upload" /\ pc'[p] = "done") =>
                       /\ ~resp'[p].success
                       /\ resp'[p].error # ErrPredict
                       /\ ~rq'[p].inferred /\ rq'[p].commits = 0
             /\ db' = {}
       /\ \A p \in Procs :
             (pc[p] = "im_exists" /\ Moved(p) /\ MODEL_DOWNLOAD_URL = ""
                /\ modelFile = "absent") =>
                 /\ Returns(p) /\ ret'[p] = None
                 /\ UNCHANGED <<holderVars, modelFile>>
       /\ \A p \in Workers :
             (pc[p] = "p_model" /\ Moved(p) /\ ret[p] = None) =>
                 /\ resp'[p] = ErrorResponse(500, ErrModel, "none")
                 /\ pc'[p] = "done"
                 /\ UNCHANGED <<db, files>>]_vars

\* C6 witness: the second upload in a row was answered model-unavailable.
C6_Witness ==
    /\ NoModelSource
    /\ reqCount = 2
    /\ \E p \in Workers :
          /\ Finished(p)
          /\ rq[p].original # <<>>
          /\ resp[p] = ErrorResponse(500, ErrModel, "none")
    /\ db = {}

\* C7 as stated: a call of load_model / initialize_model that begins when
\* the holder is set (a load has succeeded) never gets to the file check,
\* the download or the load, and returns the handle the holder held.
C7_AsStated ==
    \A p \in Procs :
        seen[p] # None =>
            /\ pc[p] \notin SlowPath
            /\ pc[p] \notin InCall /\ pc[p] # "idle" => ret[p] = seen[p]

\* C8 as stated: an initialization that fails returns None, and the handler
\* of a raised load clears the handle and the flag; a call that finds the
\* holder unset goes on to the file check (a full new attempt); and when an
\* attempt succeeds (returns the model it loaded) the holder is loaded.
C8_AsStated ==
    [][\A p \in Procs :
          /\ (Moved(p) /\ pc[p] = "exc1") => _model' = None
          /\ (Moved(p) /\ pc[p] = "exc2") =>
                 (~_model_loaded' /\ Returns(p) /\ ret'[p] = None)
          /\ (Moved(p) /\ pc[p] = "lm_chk_flag" /\ ~is_model_available) =>
                 pc'[p] = "im_chk_flag"
          /\ (Moved(p) /\ pc[p] = "im_chk_flag" /\ ~is_model_available) =>
                 pc'[p] = "im_exists"
          /\ (Returns(p) /\ pc[p] = "im_ret_new" /\ ret'[p] # None) =>
                 (_model' # None /\ _model_loaded')]_vars

\* C9 as stated: at most one thread at a time is inside the download/load
\* section of initialize_model.
C9_AsStated ==
    Cardinality({p \in Procs : pc[p] \in LoadSection}) <= 1

\* C10 as stated: the model object is created at most once, and once the
\* holder is set it stays set to the same handle.
C10_AsStated ==
    [][/\ nextHandle' <= 1
       /\ is_model_available =>
              (is_model_available' /\ _model' = _model)]_vars

\* C11 as stated: a download that failed midway leaves no partial file at
\* the model path that a later initialize_model takes for the model: with a
\* truncated file at the path and no download in progress, no call of
\* initialize_model skips the download and goes on to load the file.  (Every
\* partial file of SpecFirstRun was written by a download of this run.)
C11_AsStated ==
    [][\A p \in Procs :
          (/\ pc[p] = "im_exists" /\ Moved(p)
           /\ modelFile = "partial"
           /\ \A q \in Procs : pc[q] # "dl_write") =>
              pc'[p] \notin {"try_gpu", "load"}]_vars

\* The probability the result reports for the class named class.
Reported(r, class) ==
    IF class = "Normal" THEN r.probabilities.Normal
    ELSE r.probabilities.DownSyndrome

\* C12: for every raw output p in [0,1] the result is Normal with confidence
\* p when p > 0.5 and Down Syndrome with confidence 1 - p when p <= 0.5; the
\* label is one of these two.
C12_ThresholdRule ==
    probe.applied =>
        LET p == probe.arg
            r == probe.out
        IN  /\ r.class \in {"Normal", "Down Syndrome"}
            /\ 2 * p > Scale => (r.class = "Normal" /\ r.confidence = p)
            /\ 2 * p <= Scale =>
                   (r.class = "Down Syndrome" /\ r.confidence = Scale - p)
            /\ r.raw = p

\* C12 witness: the raw output 0.20 was interpreted as Down Syndrome, 0.80.
C12_Witness ==
    /\ probe.applied
    /\ probe.arg = 20
    /\ probe.out.class = "Down Syndrome"
    /\ probe.out.confidence = 80

\* C13 as stated: the raw output 0.5 gives Normal with confidence 0.5.
C13_AsStated ==
    (probe.applied /\ 2 * probe.arg = Scale) =>
        (probe.out.class = "Normal" /\ 2 * probe.out.confidence = Scale)

\* C13: the raw output 0.5 is not greater than 0.5, so it gives Down
\* Syndrome with confidence 1 - 0.5 = 0.5.
C13_BoundaryIsDownSyndrome ==
    (probe.applied /\ 2 * probe.arg = Scale) =>
        (probe.out.class = "Down Syndrome" /\ 2 * probe.out.confidence = Scale)

\* C13 witness: the raw output 0.5 was interpreted.
C13_Witness ==
    /\ probe.applied
    /\ 2 * probe.arg = Scale
    /\ probe.out.class = "Down Syndrome"

\* C14: confidence = max(p, 1 - p), so it lies in [0.5, 1]; it is the
\* probability reported for the returned label, and with the probability
\* reported for the other class it adds up to 1.
C14_Confidence ==
    probe.applied =>
        LET p == probe.arg
            r == probe.out
        IN  /\ r.confidence = IF p >= Scale - p THEN p ELSE Scale - p
            /\ 2 * r.confidence >= Scale
            /\ r.confidence <= Scale
            /\ r.confidence =
                   Reported(r, IF r.class = "Normal" THEN "Normal"
                               ELSE "DownSyndrome")
            /\ r.confidence +
                   Reported(r, IF r.class = "Normal" THEN "DownSyndrome"
                               ELSE "Normal") = Scale

\* C14 witness: the raw output 0.00 was interpreted with confidence 1.00.
C14_Witness ==
    /\ probe.applied
    /\ probe.arg = 0
    /\ probe.out.confidence = Scale
    /\ probe.out.probabilities.Normal = 0

\* A deletion request is handled in this step.
Deletes == delCount' = delCount + 1

\* No request is being handled.
Quiet == \A p \in Workers : pc[p] \in {"idle", "done"}

\* C15 as stated: a deletion request for existing records, through any of
\* the three paths, ends with their rows removed and with every backing file
\* that existed removed as well, and it does not raise when a file is
\* already missing.
C15_AsStated ==
    [][Deletes =>
          \A r \in Rows(lastDelete'.ids) :
              /\ r \notin db'
              /\ r.filename \notin DOMAIN files'
              /\ r.filename \notin DOMAIN files => ~lastDelete'.raised]_vars

\* C16 as stated: whenever no request is in progress, every file of the
\* upload folder is referenced by a record and every record references a
\* file of the upload folder (a record has no field to mark a missing file).
C16_AsStated ==
    Quiet =>
        /\ \A f \in DOMAIN files : \E r \in db : r.filename = f
        /\ \A r \in db : r.filename \in DOMAIN files

\* The string s contains the string pat.
Contains(s, pat) ==
    \E i \in 1..(Len(s) - Len(pat) + 1) :
        SubSeq(s, i, i + Len(pat) - 1) = pat

\* The upload of the file a.png by alice ended in success.
PngByAlice(p) ==
    /\ Finished(p)
    /\ resp[p].success
    /\ rq[p].fname = <<"a", ".", "p", "n", "g">>
    /\ rq[p].user = <<"a", "l", "i", "c", "e">>

\* The text {Label}_{YYYYMMDD_HHMMSS}_alice.{ext} for the label and the
\* instant t.
AliceName(label, t, ext) ==
    ClassChars(ClassName(label)) \o <<"_">> \o Timestamp(t)
        \o <<"_", "a", "l", "i", "c", "e", ".">> \o ext

\* C17 as stated: a successful upload of a PNG by alice returns a label in
\* {Normal, Down Syndrome} and is stored as
\* {Label}_{YYYYMMDD_HHMMSS}_alice.jpg.
C17_AsStated ==
    \A p \in Workers :
        PngByAlice(p) =>
            /\ resp[p].result.class \in {"Normal", "Down Syndrome"}
            /\ \E t \in 0..MaxClock :
                   FileNameText(rq[p].stored) =
                       AliceName(resp[p].result.class, t, <<"j", "p", "g">>)

\* C17: a successful upload of a PNG by alice returns a label in {Normal,
\* Down Syndrome} and is stored as {Label}_{YYYYMMDD_HHMMSS}_alice.png: the
\* stored artifact of a PNG upload keeps the extension png.
C17_PngStoredAsPng ==
    \A p \in Workers :
        PngByAlice(p) =>
            /\ resp[p].result.class \in {"Normal", "Down Syndrome"}
            /\ \E t \in 0..MaxClock :
                   FileNameText(rq[p].stored) =
                       AliceName(resp[p].result.class, t, <<"p", "n", "g">>)

\* C17 witness: alice's upload of a.png succeeded, its file was written and
\* its row carries the stored name.
C17_Witness ==
    \E p \in Workers :
        /\ PngByAlice(p)
        /\ rq[p].saveOk
        /\ rq[p].stored \in DOMAIN files
        /\ RecordedResult(p)

\* The characters of a result label.
LabelChars(class) ==
    IF class = "Normal" THEN <<"N", "o", "r", "m", "a", "l">>
    ELSE IF class = "Down Syndrome"
         THEN <<"D", "o", "w", "n", " ", "S", "y", "n", "d", "r", "o", "m",
                "e">>
         ELSE <<>>

NotBlank(c) == c # " "

\* The extensions a stored file can have.
StoredExtensions ==
    ALLOWED_EXTENSIONS \ {<<"h", "e", "i", "c">>, <<"h", "e", "i", "f">>}

\* C18: for every accepted upload the stored filename is
\* {label without spaces}_{YYYYMMDD_HHMMSS}_{sanitized owner}.{ext}, where
\* ext is the lower-cased extension of the original filename except that
\* heic and heif become jpg; so the extension of the stored filename is one
\* of jpg, jpeg, png, gif, bmp, webp, tiff, tif, and the label part is the
\* result label (without its spaces).
C18_FilenameScheme ==
    (probe.applied /\ probe.out.ok) =>
        LET a == probe.arg
            o == probe.out
            e == lower(AfterLastDot(o.original))
            ext == IF e \in {<<"h", "e", "i", "c">>, <<"h", "e", "i", "f">>}
                   THEN <<"j", "p", "g">> ELSE e
            text == FileNameText(o.name)
        IN  /\ text = SelectSeq(LabelChars(o.result.class), NotBlank)
                         \o <<"_">> \o Timestamp(a.ts) \o <<"_">>
                         \o secure_filename(a.user) \o <<".">> \o ext
            /\ AfterLastDot(text) \in StoredExtensions
            /\ o.result.class \in {"Normal", "Down Syndrome"}
            /\ ClassChars(o.name.cls) =
                   SelectSeq(LabelChars(o.result.class), NotBlank)

\* C18 witness: the upload a.HEIC of the owner "a b" was named
\* DownSyndrome_20240101_000000_a_b.jpg.
C18_Witness ==
    /\ probe.applied
    /\ probe.out.ok
    /\ probe.arg.fname = <<"a", ".", "H", "E", "I", "C">>
    /\ probe.arg.user = <<"a", " ", "b">>
    /\ probe.out.result.class = "Down Syndrome"
    /\ FileNameText(probe.out.name) =
           ClassChars("DownSyndrome") \o <<"_">> \o Timestamp(0)
               \o <<"_", "a", "_", "b", ".", "j", "p", "g">>

\* C19: for every uploaded filename and every owner name the stored
\* filename contains no path separator and is not a '..' (or '.') segment,
\* so the path joined from the upload folder and the stored filename is a
\* direct child of the upload folder.
C19_DirectChild ==
    (probe.applied /\ probe.out.ok) =>
        LET text == FileNameText(probe.out.name)
        IN  /\ \A i \in 1..Len(text) : text[i] \notin {"/", "\\"}
            /\ text \notin {<<>>, <<".">>, <<".", ".">>}

\* C19 witness: the upload ../../etc/passwd.png of the owner "../b" was
\* named with the owner part b and the extension png.
C19_Witness ==
    /\ probe.applied
    /\ probe.out.ok
    /\ probe.arg.fname = <<".", ".", "/", ".", ".", "/", "e", "t", "c", "/", "p", "a", "s", "s", "w", "d", ".", "p", "n", "g">>
    /\ probe.arg.user = <<".", ".", "/", "b">>
    /\ probe.out.name.user = <<"b">>
    /\ probe.out.name.ext = <<"p", "n", "g">>

\* C20 as stated: the result of sanitize_filename contains none of the items
\* it removes: no '/', no backslash, no '..', none of < > : " | ? * and no
\* null byte.
C20_AsStated ==
    probe.applied =>
        \A k \in 1..Len(dangerous_chars) :
            ~Contains(probe.out, dangerous_chars[k])

\* C21 as stated: with the configured ceiling of MAX_CONTENT_LENGTH bytes,
\* every payload longer than the ceiling is rejected before the decode (by
\* the size check or already by the framework), and no payload of at most
\* the ceiling, the ceiling itself included, is rejected by the size check:
\* the ceiling enforced is the configured one.
C21_AsStated ==
    probe.applied =>
        LET a == probe.arg
        IN  /\ a.file_size > a.MAX_CONTENT_LENGTH =>
                   probe.out.stage \in {"size", "upstream"}
            /\ a.file_size <= a.MAX_CONTENT_LENGTH =>
                   probe.out.stage # "size"

\* The messages predict answers a failure with.
ErrorMessages ==
    {ErrNoFile, ErrNoSelection, ErrFormat, ErrSize, ErrDecode, ErrModel,
     ErrPredict, ErrInternal}

\* The response is a structured one: success with the result of the
\* request, or failure with a message and no result.
Structured(p) ==
    /\ resp[p].success \in BOOLEAN
    /\ resp[p].success =>
           /\ resp[p].status = 200
           /\ rq[p].inferred
           /\ resp[p].result = rq[p].result
           /\ resp[p].result.class \in {"Normal", "Down Syndrome"}
           /\ resp[p].error = "none"
    /\ ~resp[p].success =>
           /\ resp[p].status \in {400, 500}
           /\ resp[p].error \in ErrorMessages
           /\ resp[p].result = NoResult

\* The steps of a request in the order of the control flow of predict and of
\* the load_model call it makes.
ControlOrder ==
    <<"h_file", "h_name", "h_size", "h_decode", "h_prep", "lm_chk_flag",
      "lm_chk_model", "lm_ret", "im_chk_flag", "im_chk_model", "im_ret",
      "im_exists", "dl_get", "dl_open", "dl_write", "try_gpu", "load",
      "set_flag", "log_shape", "im_ret_new", "exc1", "exc2", "p_model",
      "h_save", "h_commit", "done">>

Rank(l) == CHOOSE i \in 1..Len(ControlOrder) : ControlOrder[i] = l

\* C22: every upload request ends with exactly one structured response: a
\* finished request has success=true with its result, or success=false with
\* an error message and no result (also after an unexpected exception or a
\* failing commit); the response of a request is set once, in the step that
\* ends it; and every step of a request moves it forward in the order of
\* its steps, so that it ends after at most as many steps as there are.
C22_OneStructuredResponse ==
    /\ [](\A p \in Workers : Finished(p) => Structured(p))
    /\ [][\A p \in Workers :
            /\ resp'[p] # resp[p] =>
                   \/ /\ pc[p] \notin {"idle", "done"}
                      /\ pc'[p] = "done"
                      /\ resp[p] = NoResponse
                   \/ /\ pc[p] \in {"idle", "done"}
                      /\ pc'[p] = "h_file"
                      /\ resp'[p] = NoResponse
            /\ (task[p] = "upload" /\ pc[p] # "done" /\ pc'[p] = "done") =>
                   resp'[p] # NoResponse
            /\ (task[p] = "upload" /\ pc[p] \notin {"idle", "done"}
                  /\ Moved(p)) =>
                   Rank(pc'[p]) > Rank(pc[p])]_vars

\* C22 witness: a request whose commit failed has ended with success=false,
\* the message of line 151 and no result, although it had inferred one.
C22_Witness ==
    \E p \in Workers :
        /\ Finished(p)
        /\ rq[p].commitFailed
        /\ rq[p].inferred
        /\ ~resp[p].success
        /\ resp[p].error = ErrInternal
        /\ resp[p].result = NoResult

\* The request ended because the model runtime raised during inference.
RuntimeRaised(p) ==
    /\ Finished(p)
    /\ ~resp[p].success
    /\ resp[p].error = ErrPredict

\* C23 as stated: two uploads that differ only in the text of the exception
\* raised inside the model runtime get the same response: the same upload
\* by the same owner, failing in model.predict, is answered identically
\* whatever the exception says.
C23_AsStated ==
    \A p, q \in Workers :
        (/\ RuntimeRaised(p) /\ RuntimeRaised(q)
         /\ rq[p].fname = rq[q].fname
         /\ rq[p].user = rq[q].user) =>
            resp[p] = resp[q]

\* C24 as stated: two distinct successful uploads get distinct stored
\* filenames, also within the same second: no two rows share a filename, and
\* the write of an upload never goes to a name that a row already
\* references.
C24_AsStated ==
    /\ [](\A r1, r2 \in db : r1.id # r2.id => r1.filename # r2.filename)
    /\ [][\A p \in Workers :
            (pc[p] = "h_save" /\ Moved(p)
               /\ (rq'[p].saveOk \/ files' # files)) =>
                \A r \in db : rq'[p].stored # r.filename]_vars

\* C25 as stated: a failure of GPU detection or of the memory-growth
\* configuration is never fatal: with a complete model file at the path,
\* whatever happens in that step of initialize_model, the call goes on to
\* load the model file and does not end in the handler that unsets the
\* holder.
C25_AsStated ==
    [][\A p \in Procs :
          (pc[p] = "try_gpu" /\ Moved(p) /\ modelFile = "valid") =>
              pc'[p] = "load"]_vars

\* The steps of download_model.
Downloading == {"dl_get", "dl_open", "dl_write"}

\* C26: initialize_model starts a download exactly when, having read the
\* holder as unset (the flag false or the handle null at line 41), it finds
\* no file at the path and a non-empty URL is configured; a call that reads
\* the holder as set gets neither to the file test nor to a download;
\* with a file at the path it goes on without a download; the load is
\* attempted only after the file was found or the download ended with
\* success, and a download that fails ends the call without a load.
C26_DownloadRule ==
    [][\A p \in Procs :
          /\ (Moved(p) /\ pc'[p] = "dl_get") =>
                 /\ pc[p] = "im_exists"
                 /\ modelFile = "absent"
                 /\ MODEL_DOWNLOAD_URL # ""
          /\ (Moved(p) /\ pc'[p] = "im_exists") =>
                 \/ pc[p] = "im_chk_flag" /\ ~_model_loaded
                 \/ pc[p] = "im_chk_model" /\ _model = None
          /\ (Moved(p) /\ pc[p] = "im_chk_model" /\ _model # None) =>
                 pc'[p] = "im_ret"
          /\ (Moved(p) /\ pc[p] = "im_exists") =>
                 /\ (modelFile = "absent" /\ MODEL_DOWNLOAD_URL # "") =>
                        pc'[p] = "dl_get"
                 /\ modelFile # "absent" => pc'[p] = "try_gpu"
                 /\ (modelFile = "absent" /\ MODEL_DOWNLOAD_URL = "") =>
                        (pc'[p] \notin Downloading \cup {"try_gpu", "load"}
                           /\ ret'[p] = None)
          /\ (Moved(p) /\ pc'[p] = "try_gpu") =>
                 \/ pc[p] = "im_exists" /\ modelFile # "absent"
                 \/ pc[p] = "dl_write"
          /\ (Moved(p) /\ pc'[p] = "load") => pc[p] = "try_gpu"
          /\ (Moved(p) /\ pc[p] \in Downloading) =>
                 \/ pc'[p] \in Downloading \cup {"try_gpu"}
                 \/ ret'[p] = None /\ _model' = _model
                      /\ _model_loaded' = _model_loaded]_vars

\* C26 witness: at start-up, with no file at the path and a URL configured,
\* the download is writing the file and nothing was loaded yet.
C26_Witness ==
    /\ pc[Main] = "dl_write"
    /\ MODEL_DOWNLOAD_URL # ""
    /\ modelFile = "partial"
    /\ ~is_model_available
    /\ nextHandle = 0
    /\ \A p \in Workers : pc[p] = "idle"

\* C27 as stated: in every reachable state, under any interleaving of
\* concurrent calls, the flag and the handle agree: _model_loaded is true
\* only if _model is not null.
C27_AsStated == _model_loaded => _model # None

\* C28 as stated: a deletion through delete_record or delete_selected that
\* does not raise leaves every record outside the deleted set in the table, and the file of
\* each such record, if it was in the upload folder, is still there with
\* the same content.
C28_AsStated ==
    [][(Deletes /\ lastDelete'.path \in {"delete_record", "delete_selected"}
          /\ ~lastDelete'.raised)
          => \A r \in db \ Rows(lastDelete'.ids) :
                 /\ r \in db'
                 /\ r.filename \in DOMAIN files =>
                        /\ r.filename \in DOMAIN files'
                        /\ files'[r.filename] = files[r.filename]]_vars

====
